---- MODULE Spec2Model ----
(***************************************************************************)
(* A model of molpal/pools/fingerprints.py: the job-count resolver         *)
(* (_fix_njobs), the column detector (find_smiles_col), the worker         *)
(* (parse_line) and parse_smiles_par: its setup (empty-file check, pool    *)
(* and file creation, counting pass, rewind) and its pipeline (row source  *)
(* gated by a semaphore, the ordered multiprocessing pool, and the         *)
(* compacting writer loop).                                                *)
(*                                                                         *)
(* A data row is represented by the outcome of encoding its descriptor:   *)
(* "valid" (encoder.encode_and_uncompress returns a vector), "invalid"     *)
(* (it raises, so parse_line returns None) or "short" (the row has no      *)
(* field smiles_col, so parse_line raises).  The vector of row k is        *)
(* represented by the number k, so that the place a vector is written at   *)
(* can be compared with the row it came from.                              *)
(***************************************************************************)
EXTENDS Integers, Sequences, FiniteSets, TLC

\* ---------------------------------------------------------------- bounds
\* Longest input (number of data rows) of the pipeline specification.
MaxRows == 7
\* Rows per task of pool.imap.  The source uses 1024 (line 167); the model
\* scales it down so that whole and partial chunks, and a full semaphore,
\* happen within MaxRows rows.
chunksize == 2
\* Number of execution units (MAX_CPU) in the pipeline specification.
PipeCPU == 2
\* Ranges of MAX_CPU and of the njobs argument in the resolver specification.
MaxCPU == 8
MaxPolicy == 20
\* Longest input and widest first data row of the setup specification.
MaxSetupRows == 3
MaxCols == 3

\* ------------------------------------------------------------- constants
\* Python's None, as returned by parse_line for a row that fails to encode.
None == -1
\* The outcome of a call of parse_line that raises (IndexError at line 84).
Raised == -2

VARIABLES
    rows,          \* the data rows of the file, as encoding outcomes
    file,          \* the lines of the file at filepath
    probe,         \* Chem.MolFromSmiles on each field of the first data row
    title_line,    \* argument title_line
    delimiter,     \* argument delimiter
    smiles_arg,    \* argument smiles_col as passed by the caller
    smiles_col,    \* local smiles_col
    fid_pos,       \* read position of fid, in lines
    pos,           \* local pos of find_smiles_col
    col_found,     \* value returned by find_smiles_col
    made,          \* what the call has created (pool, h5, dset, sem)
    err_msg,       \* the message of find_smiles_col's ValueError
    MAX_CPU,       \* module global MAX_CPU
    policy,        \* the njobs argument as passed by the caller
    njobs,         \* local njobs (overwritten by _fix_njobs at line 133)
    pc,            \* position of the calling thread in parse_smiles_par
    err,           \* the exception that left parse_smiles_par, if any
    n_mols,        \* local n_mols (the counting pass)
    sem,           \* value of the semaphore
    nread,         \* rows yielded by gen_rows so far
    buf,           \* rows islice has collected for the next task
    ndisp,         \* tasks put on the pool's task queue so far
    taskq,         \* the pool's task queue
    running,       \* tasks held by worker processes
    cache,         \* finished tasks not yet taken by the result iterator
    length_set,    \* the task handler has exhausted gen_rows (_set_length)
    index,         \* next task number the result iterator delivers
    curchunk,      \* undelivered results of the task being delivered
    en_count,      \* enumerate's counter
    i,             \* loop variable i
    offset,        \* local offset
    fp,            \* loop variable fp, tagged with the row it came from
    invalid_rows,  \* local invalid_rows
    fps_dset,      \* contents of dataset 'fps' (None where nothing written)
    dset_rows,     \* current number of rows of dataset 'fps'
    wlog,          \* history: the dataset indices written, in order
    ntrunc         \* history: number of calls of fps_dset.resize

vars == <<rows, file, probe, title_line, delimiter, smiles_arg, smiles_col,
          fid_pos, pos, col_found, made, err_msg, MAX_CPU, policy, njobs, pc, err, n_mols, sem,
          nread, buf, ndisp, taskq, running, cache, length_set, index,
          curchunk, en_count, i, offset, fp, invalid_rows, fps_dset,
          dset_rows, wlog, ntrunc>>

argVars == <<rows, file, probe, title_line, delimiter, smiles_arg>>
setupVars == <<smiles_col, pos, col_found, made, err_msg>>
pipeVars == <<sem, nread, buf, ndisp, taskq, running, cache, length_set>>
iterVars == <<index, curchunk>>
loopVars == <<en_count, i, offset, fp, invalid_rows, fps_dset, dset_rows,
              wlog, ntrunc>>

Max(a, b) == IF a >= b THEN a ELSE b
Min(a, b) == IF a <= b THEN a ELSE b

\* ------------------------------------------------------------ _fix_njobs
\* _fix_njobs without the clamp of line 210: more processes than units.
_fix_njobs_unclamped(n, cpus) ==
    IF n > -1 THEN n
    ELSE IF n = -1 THEN cpus
    ELSE Max((cpus + n + 1) % cpus, 1)

\* Line 212 is the comparison "njobs == 1", which assigns nothing.
_fix_njobs(n, cpus) ==
    LET n1 == IF n > 1 THEN Min(cpus, n) ELSE n
    IN  IF n1 > -1 THEN n1
        ELSE IF n1 = -1 THEN cpus
        ELSE Max((cpus + n1 + 1) % cpus, 1)

\* ------------------------------------------------------------ parse_line
\* The result for a yielded row (item.row is its place in the order of
\* submission, item.line the line read): row[smiles_col] raises for a short
\* row, outside the try; otherwise the vector, or None when encoding raises.
parse_line(item) ==
    [row |-> item.row,
     val |-> IF item.line.kind = "short" THEN Raised
             ELSE IF item.line.kind = "valid" THEN item.line.id
             ELSE None]

\* ------------------------------------------------------- find_smiles_col
\* Lines 56-59: the index of the first token MolFromSmiles accepts, scanning
\* from field j; None when the loop ends without returning.
RECURSIVE FirstAccepted(_, _)
FirstAccepted(tokens, j) ==
    IF j >= Len(tokens) THEN None
    ELSE IF tokens[j + 1] THEN j
    ELSE FirstAccepted(tokens, j + 1)

\* The row csv.reader returns for the first data row: one token per field.
\* The text of field k is represented by the numeral of k.
SampleRow == [k \in 1..Len(probe) |-> ToString(k - 1)]

\* delimiter.join(row): the tokens with the delimiter between them.
RECURSIVE Join(_, _)
Join(tokens, d) ==
    IF tokens = <<>> THEN <<>>
    ELSE IF Len(tokens) = 1 THEN <<tokens[1]>>
    ELSE <<tokens[1], d>> \o Join(Tail(tokens), d)

\* Lines 62-64: the message is the concatenation of an f-string with the
\* file name, a plain string (no f prefix, so its braces are not a
\* replacement field and the text "{delimiter}" stays as it is) and an
\* f-string with the joined row.
ErrorMessage(d, row) ==
    [name |-> "fid.name", delim |-> "{delimiter}", row |-> Join(row, d)]

NoMsg == [name |-> "", delim |-> "", row |-> <<>>]

\* ---------------------------------------------------------------- inputs
\* The delimiters a caller passes in the setup specification.
Delimiters == {",", ";"}

\* All inputs of at most MaxRows data rows that encode or fail to encode.
Inputs == UNION {[1..n -> {"valid", "invalid"}] : n \in 1..MaxRows}
\* All inputs of at most MaxSetupRows data rows, short rows included.
SetupInputs ==
    UNION {[1..n -> {"valid", "invalid", "short"}] : n \in 0..MaxSetupRows}
\* The probe's answers for a first data row of at most n fields.
Probes(n) == UNION {[1..m -> BOOLEAN] : m \in 0..n}

\* The file's lines: a title line when there is one, then the data rows.
\* The id of a data line stands for its text.
TitleLine == [id |-> None, kind |-> "title"]
FileOf(t, rs) ==
    (IF t THEN <<TitleLine>> ELSE <<>>)
        \o [k \in 1..Len(rs) |-> [id |-> k - 1, kind |-> rs[k]]]
\* The files with those data rows: with no data row, also the file of
\* zero bytes.
Files(t, rs) == {FileOf(t, rs)} \cup (IF rs = <<>> THEN {<<>>} ELSE {})

\* "if smiles_col:" at line 157.
Truthy(c) == c # None /\ c # 0

NoFp == [row |-> -1, val |-> None]

Rest ==
    /\ n_mols = 0 /\ sem = 0 /\ nread = 0 /\ buf = <<>> /\ ndisp = 0
    /\ taskq = <<>> /\ running = {} /\ cache = {} /\ length_set = FALSE
    /\ index = 0 /\ curchunk = <<>> /\ en_count = 0 /\ i = 0 /\ offset = 0
    /\ fp = NoFp /\ invalid_rows = {} /\ fps_dset = <<>> /\ dset_rows = 0
    /\ smiles_col = smiles_arg /\ fid_pos = 0 /\ pos = 0
    /\ col_found = None /\ made = {} /\ wlog = <<>> /\ ntrunc = 0
    /\ err_msg = NoMsg
    /\ err = "none"

\* The pipeline specification: calls with the default title_line and
\* smiles_col, on files of up to MaxRows data rows.
Init ==
    /\ rows \in Inputs \cup {<<>>}
    /\ title_line = TRUE
    /\ delimiter = ","
    /\ smiles_arg = None
    /\ probe \in Probes(1)
    /\ file \in Files(title_line, rows)
    /\ MAX_CPU = PipeCPU
    /\ policy \in -1..1
    /\ njobs = policy
    /\ pc = "stat"
    /\ Rest

\* ---------------------------------------------------- parse_smiles_par
\* CheckEmpty that lets a file of zero bytes through.
CheckEmptyMissing ==
    /\ pc = "stat"
    /\ pc' = "start"
    /\ UNCHANGED <<argVars, setupVars, fid_pos, MAX_CPU, policy, njobs, err,
                   n_mols>>
    /\ UNCHANGED <<pipeVars, iterVars, loopVars>>

\* Lines 130-131.
CheckEmpty ==
    /\ pc = "stat"
    /\ IF file = <<>>
       THEN pc' = "raised" /\ err' = "EmptyInput"
       ELSE pc' = "start" /\ err' = err
    /\ UNCHANGED <<argVars, setupVars, fid_pos, MAX_CPU, policy, njobs,
                   n_mols>>
    /\ UNCHANGED <<pipeVars, iterVars, loopVars>>


\* Line 133.
ResolveJobs ==
    /\ pc = "start"
    /\ njobs' = _fix_njobs(njobs, MAX_CPU)
    /\ pc' = "open"
    /\ UNCHANGED <<argVars, setupVars, fid_pos, MAX_CPU, policy, err, n_mols>>
    /\ UNCHANGED <<pipeVars, iterVars, loopVars>>

Capacity == (njobs + 2) * chunksize

\* Lines 147-150: the with statement opens the input, creates the pool and
\* then the h5 file.  multiprocessing.Pool raises ValueError for
\* processes < 1.
Open ==
    /\ pc = "open"
    /\ IF njobs < 1
       THEN pc' = "raised" /\ err' = "ValueError" /\ made' = made
       ELSE pc' = "title" /\ err' = err /\ made' = made \cup {"pool", "h5"}
    /\ UNCHANGED <<argVars, smiles_col, pos, col_found, err_msg, fid_pos,
                   MAX_CPU, policy, njobs, n_mols>>
    /\ UNCHANGED <<pipeVars, iterVars, loopVars>>

\* Lines 152-153.
SkipTitle ==
    /\ pc = "title"
    /\ fid_pos' = IF title_line THEN Min(fid_pos + 1, Len(file)) ELSE fid_pos
    /\ pc' = "fsc"
    /\ UNCHANGED <<argVars, setupVars, MAX_CPU, policy, njobs, err, n_mols>>
    /\ UNCHANGED <<pipeVars, iterVars, loopVars>>

\* find_smiles_col, lines 49-52: tell, and one row read through the
\* reader; next raises StopIteration when no line is left.
FscRead ==
    /\ pc = "fsc"
    /\ pos' = fid_pos
    /\ IF fid_pos < Len(file)
       THEN fid_pos' = fid_pos + 1 /\ pc' = "fsc_seek" /\ err' = err
       ELSE fid_pos' = fid_pos /\ pc' = "raised" /\ err' = "StopIteration"
    /\ UNCHANGED <<argVars, smiles_col, col_found, made, err_msg, MAX_CPU,
                   policy, njobs, n_mols>>
    /\ UNCHANGED <<pipeVars, iterVars, loopVars>>

\* FscSeek that leaves the stream behind the sampled row.
FscSeekMissing ==
    /\ pc = "fsc_seek"
    /\ pc' = "fsc_scan"
    /\ UNCHANGED <<argVars, setupVars, fid_pos, MAX_CPU, policy, njobs, err,
                   n_mols>>
    /\ UNCHANGED <<pipeVars, iterVars, loopVars>>

\* find_smiles_col, line 54.
FscSeek ==
    /\ pc = "fsc_seek"
    /\ fid_pos' = pos
    /\ pc' = "fsc_scan"
    /\ UNCHANGED <<argVars, setupVars, MAX_CPU, policy, njobs, err, n_mols>>
    /\ UNCHANGED <<pipeVars, iterVars, loopVars>>

\* FscScan that returns the field after the first accepted one.
FscScanOffByOne ==
    /\ pc = "fsc_scan"
    /\ IF FirstAccepted(probe, 0) # None
       THEN /\ col_found' = FirstAccepted(probe, 0) + 1
            /\ pc' = "assign" /\ err' = err
            /\ err_msg' = err_msg
       ELSE /\ col_found' = col_found
            /\ pc' = "raised" /\ err' = "NoValidColumn"
            /\ err_msg' = ErrorMessage(delimiter, SampleRow)
    /\ UNCHANGED <<argVars, smiles_col, pos, made, fid_pos, MAX_CPU, policy,
                   njobs, n_mols>>
    /\ UNCHANGED <<pipeVars, iterVars, loopVars>>

\* find_smiles_col, lines 56-64: the scan of the sampled row's tokens, the
\* return or the ValueError.
FscScan ==
    /\ pc = "fsc_scan"
    /\ IF FirstAccepted(probe, 0) # None
       THEN /\ col_found' = FirstAccepted(probe, 0)
            /\ pc' = "assign" /\ err' = err
            /\ err_msg' = err_msg
       ELSE /\ col_found' = col_found
            /\ pc' = "raised" /\ err' = "NoValidColumn"
            /\ err_msg' = ErrorMessage(delimiter, SampleRow)
    /\ UNCHANGED <<argVars, smiles_col, pos, made, fid_pos, MAX_CPU, policy,
                   njobs, n_mols>>
    /\ UNCHANGED <<pipeVars, iterVars, loopVars>>

\* Lines 157-160: the returned column is kept only when smiles_col is
\* falsy, which None and 0 both are.
AssignCol ==
    /\ pc = "assign"
    /\ smiles_col' = IF Truthy(smiles_col) THEN smiles_col ELSE col_found
    /\ pc' = "count"
    /\ UNCHANGED <<argVars, pos, col_found, made, err_msg, fid_pos, MAX_CPU,
                   policy, njobs, err, n_mols>>
    /\ UNCHANGED <<pipeVars, iterVars, loopVars>>

\* Line 162: the reader is run to the end of the file.
Count ==
    /\ pc = "count"
    /\ n_mols' = Len(file) - fid_pos
    /\ fid_pos' = Len(file)
    /\ pc' = "rewind"
    /\ UNCHANGED <<argVars, setupVars, MAX_CPU, policy, njobs, err>>
    /\ UNCHANGED <<pipeVars, iterVars, loopVars>>

\* Rewind that does not skip the title line again.
RewindNoSkip ==
    /\ pc = "rewind"
    /\ fid_pos' = 0
    /\ pc' = "create"
    /\ UNCHANGED <<argVars, setupVars, MAX_CPU, policy, njobs, err, n_mols>>
    /\ UNCHANGED <<pipeVars, iterVars, loopVars>>

\* Lines 163-165.
Rewind ==
    /\ pc = "rewind"
    /\ fid_pos' = IF title_line THEN Min(1, Len(file)) ELSE 0
    /\ pc' = "create"
    /\ UNCHANGED <<argVars, setupVars, MAX_CPU, policy, njobs, err, n_mols>>
    /\ UNCHANGED <<pipeVars, iterVars, loopVars>>

\* Lines 167-186: the dataset of n_mols rows, the semaphore, the row
\* generator and the result iterator.
Setup ==
    /\ pc = "create"
    /\ fps_dset' = [k \in 0..(n_mols - 1) |-> None]
    /\ dset_rows' = n_mols
    /\ sem' = Capacity
    /\ made' = made \cup {"dset", "sem"}
    /\ pc' = "for"
    /\ UNCHANGED <<argVars, smiles_col, pos, col_found, err_msg, fid_pos,
                   MAX_CPU, policy, njobs, err, n_mols, nread, buf, ndisp, taskq,
                   running, cache, length_set, index, curchunk, en_count, i,
                   offset, fp, invalid_rows, wlog, ntrunc>>

PoolAlive == pc \in {"for", "body", "next", "release"}

\* Admit without the semaphore: gen_rows yields without waiting for a unit.
AdmitUngated ==
    /\ PoolAlive
    /\ fid_pos < Len(file)
    /\ Len(buf) < chunksize
    /\ sem' = sem - 1
    /\ buf' = Append(buf, [row |-> nread, line |-> file[fid_pos + 1]])
    /\ fid_pos' = fid_pos + 1
    /\ nread' = nread + 1
    /\ UNCHANGED <<argVars, setupVars, MAX_CPU, policy, njobs, pc, err,
                   n_mols, ndisp, taskq, running, cache, length_set>>
    /\ UNCHANGED <<iterVars, loopVars>>

\* gen_rows, driven by the pool's task handler thread through islice:
\* one row is read from the reader, the semaphore is acquired, the row is
\* yielded.  The loop ends when the reader is exhausted.
Admit ==
    /\ PoolAlive
    /\ fid_pos < Len(file)
    /\ Len(buf) < chunksize
    /\ sem > 0
    /\ sem' = sem - 1
    /\ buf' = Append(buf, [row |-> nread, line |-> file[fid_pos + 1]])
    /\ fid_pos' = fid_pos + 1
    /\ nread' = nread + 1
    /\ UNCHANGED <<argVars, setupVars, MAX_CPU, policy, njobs, pc, err,
                   n_mols, ndisp, taskq, running, cache, length_set>>
    /\ UNCHANGED <<iterVars, loopVars>>

\* Pool._get_tasks / _handle_tasks: a task of chunksize rows (fewer when
\* the reader is exhausted) is put on the task queue.
Dispatch ==
    /\ PoolAlive
    /\ \/ Len(buf) = chunksize
       \/ fid_pos = Len(file) /\ buf # <<>>
    /\ taskq' = Append(taskq, [job |-> ndisp, rows |-> buf])
    /\ ndisp' = ndisp + 1
    /\ buf' = <<>>
    /\ UNCHANGED <<argVars, setupVars, fid_pos, MAX_CPU, policy, njobs, pc,
                   err, n_mols, sem, nread, running, cache, length_set>>
    /\ UNCHANGED <<iterVars, loopVars>>

\* The task handler finds gen_rows exhausted and tells the iterator how
\* many tasks there are.
SetLength ==
    /\ PoolAlive
    /\ ~length_set
    /\ fid_pos = Len(file) /\ buf = <<>>
    /\ length_set' = TRUE
    /\ UNCHANGED <<argVars, setupVars, fid_pos, MAX_CPU, policy, njobs, pc,
                   err, n_mols, sem, nread, buf, ndisp, taskq, running,
                   cache>>
    /\ UNCHANGED <<iterVars, loopVars>>

\* A free worker process takes the oldest task.
TakeTask ==
    /\ PoolAlive
    /\ taskq # <<>>
    /\ Cardinality(running) < njobs
    /\ running' = running \cup {Head(taskq)}
    /\ taskq' = Tail(taskq)
    /\ UNCHANGED <<argVars, setupVars, fid_pos, MAX_CPU, policy, njobs, pc,
                   err, n_mols, sem, nread, buf, ndisp, cache, length_set>>
    /\ UNCHANGED <<iterVars, loopVars>>

\* The outcome of a task: the results of its rows, or no result at all
\* when parse_line raises for one of them.
TaskResult(t) ==
    LET res == [k \in DOMAIN t.rows |-> parse_line(t.rows[k])]
        ok == \A k \in DOMAIN res : res[k].val # Raised
    IN  [job |-> t.job, ok |-> ok, results |-> IF ok THEN res ELSE <<>>]

\* A worker finishes its task (mapstar over parse_line_partial); workers
\* finish in any order.
FinishTask ==
    /\ PoolAlive
    /\ \E t \in running :
        /\ running' = running \ {t}
        /\ cache' = cache \cup {TaskResult(t)}
    /\ UNCHANGED <<argVars, setupVars, fid_pos, MAX_CPU, policy, njobs, pc,
                   err, n_mols, sem, nread, buf, ndisp, taskq, length_set>>
    /\ UNCHANGED <<iterVars, loopVars>>

\* Deliverable that takes finished tasks as they come (imap_unordered).
DeliverableAny == cache

\* next(fps): IMapIterator delivers tasks by number, the generator around
\* it delivers the results of one task after another.  The finished task
\* that can be delivered next is the one numbered index.
Deliverable == {r \in cache : r.job = index}

Avail == curchunk # <<>> \/ Deliverable # {}
Exhausted == curchunk = <<>> /\ length_set /\ index = ndisp

\* The next task to deliver is one whose map raised.
NextFails == curchunk = <<>> /\ \E r \in Deliverable : ~r.ok

\* next(fps) re-raises the exception of a failed task.
PullRaise ==
    /\ \E r \in Deliverable :
         /\ ~r.ok
         /\ cache' = cache \ {r}
    /\ index' = index + 1
    /\ pc' = "raised"
    /\ err' = "IndexError"
    /\ UNCHANGED <<fp, curchunk>>

Pull ==
    IF curchunk # <<>>
    THEN /\ fp' = Head(curchunk)
         /\ curchunk' = Tail(curchunk)
         /\ UNCHANGED <<index, cache>>
    ELSE \E r \in Deliverable :
         /\ r.ok
         /\ fp' = Head(r.results)
         /\ curchunk' = Tail(r.results)
         /\ index' = index + 1
         /\ cache' = cache \ {r}

\* Line 187: the for statement takes the next result.
ForNext ==
    /\ pc = "for"
    /\ Avail
    /\ IF NextFails
       THEN PullRaise /\ UNCHANGED <<i, en_count>>
       ELSE /\ Pull
            /\ i' = en_count
            /\ en_count' = en_count + 1
            /\ pc' = "body" /\ err' = err
    /\ UNCHANGED <<argVars, setupVars, fid_pos, MAX_CPU, policy, njobs,
                   n_mols, sem, nread, buf, ndisp, taskq, running, length_set,
                   offset, invalid_rows, fps_dset, dset_rows, wlog, ntrunc>>

\* ForEnd without the resize of line 203.
ForEndNoResize ==
    /\ pc = "for"
    /\ Exhausted
    /\ pc' = "done"
    /\ UNCHANGED <<argVars, setupVars, fid_pos, MAX_CPU, policy, njobs, err,
                   n_mols>>
    /\ UNCHANGED <<pipeVars, iterVars, loopVars>>

\* Lines 187, 201-205: the for statement finds the results exhausted.
ForEnd ==
    /\ pc = "for"
    /\ Exhausted
    /\ IF n_mols - Cardinality(invalid_rows) # n_mols
       THEN /\ dset_rows' = n_mols - Cardinality(invalid_rows)
            /\ ntrunc' = ntrunc + 1
       ELSE UNCHANGED <<dset_rows, ntrunc>>
    /\ pc' = "done"
    /\ UNCHANGED <<argVars, setupVars, fid_pos, MAX_CPU, policy, njobs, err,
                   n_mols, en_count, i, offset, fp, invalid_rows, fps_dset,
                   wlog>>
    /\ UNCHANGED <<pipeVars, iterVars>>

\* RecordInvalid recording the compacted index i instead of i + offset.
RecordInvalidCompacted ==
    /\ pc = "body"
    /\ fp.val = None
    /\ invalid_rows' = invalid_rows \cup {i}
    /\ offset' = offset + 1
    /\ pc' = "next"
    /\ UNCHANGED <<argVars, setupVars, fid_pos, MAX_CPU, policy, njobs, err,
                   n_mols, en_count, i, fp, fps_dset, dset_rows, wlog, ntrunc>>
    /\ UNCHANGED <<pipeVars, iterVars>>

\* Lines 189-194.
RecordInvalid ==
    /\ pc = "body"
    /\ fp.val = None
    /\ invalid_rows' = invalid_rows \cup {i + offset}
    /\ offset' = offset + 1
    /\ pc' = "next"
    /\ UNCHANGED <<argVars, setupVars, fid_pos, MAX_CPU, policy, njobs, err,
                   n_mols, en_count, i, fp, fps_dset, dset_rows, wlog, ntrunc>>
    /\ UNCHANGED <<pipeVars, iterVars>>

\* Line 195, a result is there.
InnerNext ==
    /\ pc = "next"
    /\ Avail
    /\ IF NextFails
       THEN PullRaise
       ELSE Pull /\ pc' = "body" /\ err' = err
    /\ UNCHANGED <<argVars, setupVars, fid_pos, MAX_CPU, policy, njobs,
                   n_mols, sem, nread, buf, ndisp, taskq, running, length_set,
                   en_count, i, offset, invalid_rows, fps_dset, dset_rows,
                   wlog, ntrunc>>

\* Line 195, the results are exhausted: next raises StopIteration, which
\* nothing in parse_smiles_par catches.
InnerStop ==
    /\ pc = "next"
    /\ Exhausted
    /\ pc' = "raised"
    /\ err' = "StopIteration"
    /\ UNCHANGED <<argVars, setupVars, fid_pos, MAX_CPU, policy, njobs,
                   n_mols>>
    /\ UNCHANGED <<pipeVars, iterVars, loopVars>>

\* Write at the row's original index i + offset, leaving a gap for every
\* skipped row.
WriteAtOriginal ==
    /\ pc = "body"
    /\ fp.val # None
    /\ IF i + offset < dset_rows
       THEN /\ fps_dset' = [fps_dset EXCEPT ![i + offset] = fp.val]
            /\ wlog' = Append(wlog, i + offset)
            /\ pc' = "release" /\ err' = err
       ELSE /\ pc' = "raised" /\ err' = "IndexError"
            /\ UNCHANGED <<fps_dset, wlog>>
    /\ UNCHANGED <<argVars, setupVars, fid_pos, MAX_CPU, policy, njobs,
                   n_mols, en_count, i, offset, fp, invalid_rows, dset_rows,
                   ntrunc>>
    /\ UNCHANGED <<pipeVars, iterVars>>

\* Line 197.
Write ==
    /\ pc = "body"
    /\ fp.val # None
    /\ IF i < dset_rows
       THEN /\ fps_dset' = [fps_dset EXCEPT ![i] = fp.val]
            /\ wlog' = Append(wlog, i)
            /\ pc' = "release" /\ err' = err
       ELSE /\ pc' = "raised" /\ err' = "IndexError"
            /\ UNCHANGED <<fps_dset, wlog>>
    /\ UNCHANGED <<argVars, setupVars, fid_pos, MAX_CPU, policy, njobs,
                   n_mols, en_count, i, offset, fp, invalid_rows, dset_rows,
                   ntrunc>>
    /\ UNCHANGED <<pipeVars, iterVars>>

\* Line 198.
Release ==
    /\ pc = "release"
    /\ sem' = sem + 1
    /\ pc' = "for"
    /\ UNCHANGED <<argVars, setupVars, fid_pos, MAX_CPU, policy, njobs, err,
                   n_mols, nread, buf, ndisp, taskq, running, cache,
                   length_set>>
    /\ UNCHANGED <<iterVars, loopVars>>

Next ==
    \/ CheckEmpty
    \/ ResolveJobs
    \/ Open
    \/ SkipTitle
    \/ FscRead
    \/ FscSeek
    \/ FscScan
    \/ AssignCol
    \/ Count
    \/ Rewind
    \/ Setup
    \/ Admit
    \/ Dispatch
    \/ SetLength
    \/ TakeTask
    \/ FinishTask
    \/ ForNext
    \/ ForEnd
    \/ RecordInvalid
    \/ InnerNext
    \/ InnerStop
    \/ Write
    \/ Release

Spec == Init /\ [][Next]_vars

\* The setup specification: every combination of title_line and
\* smiles_col, first data rows of up to MaxCols fields, files of up to
\* MaxSetupRows data rows, short rows included.  The first data row is
\* short exactly when the column in use lies beyond its fields, which only
\* a column given by the caller can.
InitSetup ==
    /\ rows \in SetupInputs
    /\ title_line \in BOOLEAN
    /\ delimiter \in Delimiters
    /\ smiles_arg \in {None} \cup 0..(MaxCols - 1)
    /\ probe \in Probes(MaxCols)
    /\ rows # <<>> =>
          (rows[1] = "short" <=>
              (Truthy(smiles_arg) /\ smiles_arg >= Len(probe)))
    /\ file \in Files(title_line, rows)
    /\ MAX_CPU = PipeCPU
    /\ policy = -1
    /\ njobs = policy
    /\ pc = "stat"
    /\ Rest

SpecSetup == InitSetup /\ [][Next]_vars

\* The resolver alone, over a wide range of arguments and unit counts.
InitNjobs ==
    /\ rows = <<"valid">>
    /\ title_line = TRUE
    /\ delimiter = ","
    /\ smiles_arg = None
    /\ probe = <<TRUE>>
    /\ file = FileOf(title_line, rows)
    /\ MAX_CPU \in 1..MaxCPU
    /\ policy \in -MaxPolicy..MaxPolicy
    /\ njobs = policy
    /\ pc = "start"
    /\ Rest

SpecNjobs == InitNjobs /\ [][ResolveJobs]_vars


\* ---------------------------------------------------------------- claims
\* Original (0-based) indices of the rows that encode / fail to encode.
ValidIdx == {k \in 0..(Len(rows) - 1) : rows[k + 1] = "valid"}
InvalidIdx == {k \in 0..(Len(rows) - 1) : rows[k + 1] = "invalid"}
\* Dataset rows that hold a vector.
Written == {k \in DOMAIN fps_dset : fps_dset[k] # None}
\* Rows whose result is accounted for: written or recorded invalid.
Resolved == Cardinality(Written) + Cardinality(invalid_rows)
\* Units released so far: the semaphore starts at Capacity, loses one per
\* admitted row and gains one per release.
Released == sem - Capacity + nread
SetUp == "sem" \in made

\* C1 (Conservation): when the run returns, the dataset's row count, which
\* is the number of vectors written, plus the size of the returned
\* invalid-row set equals the count of the counting pass, the number of
\* data rows.
Conservation ==
    pc = "done" =>
        /\ dset_rows + Cardinality(invalid_rows) = n_mols
        /\ Cardinality(Written) = dset_rows
        /\ n_mols = Len(rows)

ConservationWitness ==
    /\ pc = "done"
    /\ invalid_rows # {}
    /\ dset_rows >= 2

\* C2 (Order preservation): compacted row k holds the vector of the k-th
\* valid data row in file order, the written rows are a prefix of the
\* dataset without a gap, and a finished run has written every valid row.
OrderPreserved ==
    /\ \A k \in Written :
          /\ fps_dset[k] \in ValidIdx
          /\ Cardinality({u \in ValidIdx : u < fps_dset[k]}) = k
          /\ \A j \in 0..k : j \in Written
    /\ pc = "done" => Cardinality(Written) = Cardinality(ValidIdx)

OrderPreservedWitness ==
    /\ pc = "done"
    /\ \E a, b, c \in 0..(Len(rows) - 1) :
          /\ a < b /\ b < c
          /\ a \in ValidIdx /\ b \in InvalidIdx /\ c \in ValidIdx
          /\ fps_dset[0] = a

\* C3 (Invalid-row set holds original indices): every value added to
\* invalid_rows is i + offset and is the original index of the failed row
\* just pulled; the set never holds the index of a row that encodes; when
\* the run ends (returning, or leaving with StopIteration) it holds the
\* index of every row that failed.
InvalidRowsOriginal ==
    /\ invalid_rows \subseteq InvalidIdx
    /\ (pc = "body" /\ fp.val = None) => i + offset = fp.row
    /\ pc = "next" => (fp.row = i + offset - 1 /\ fp.row \in invalid_rows)
    /\ (pc = "done" \/ err = "StopIteration") => invalid_rows = InvalidIdx

InvalidRowsOriginalWitness ==
    /\ pc = "done"
    /\ \E k \in invalid_rows : \E v \in ValidIdx : v < k
    /\ Cardinality(invalid_rows) >= 2

\* C4 (All-invalid input is a success): when every data row fails to
\* encode the run raises no error and returns a 0-row dataset and the
\* invalid-row set {0, ..., totalDataRows-1}.
AllInvalid == ValidIdx = {}

AllInvalidSucceeds ==
    (AllInvalid /\ SetUp) =>
        /\ pc # "raised"
        /\ pc = "done" =>
              (dset_rows = 0 /\ invalid_rows = 0..(n_mols - 1))

\* C5 (Trailing invalid run): when the input ends with invalid rows after
\* at least one valid row, the skip loop ends on exhaustion of the results
\* without pulling a result that does not exist (next raising
\* StopIteration), and the run returns with every valid row written and
\* every failed row recorded.
TrailingInvalid ==
    /\ rows # <<>>
    /\ rows[Len(rows)] = "invalid"
    /\ ValidIdx # {}

TrailingRunReturns ==
    (TrailingInvalid /\ SetUp) =>
        /\ pc # "raised"
        /\ pc = "done" =>
              /\ Cardinality(Written) = Cardinality(ValidIdx)
              /\ invalid_rows = InvalidIdx

\* C6 (Gate release per resolved row): between two results the compactor
\* has released as many units as it has consumed results (written or
\* recorded invalid), and at the end of a run every unit is back.
GateReleasedPerResult ==
    /\ pc = "for" => Released = en_count + offset
    /\ pc = "done" => sem = Capacity

\* C7 (Backpressure bound): rows admitted minus rows resolved (written or
\* recorded invalid) never exceeds (njobs + 2) * chunksize.
BackpressureBound ==
    SetUp => nread - Resolved <= (njobs + 2) * chunksize

BackpressureBoundWitness ==
    /\ PoolAlive
    /\ nread - Resolved = (njobs + 2) * chunksize
    /\ nread < n_mols

\* C8 (No deadlock on invalid rows): the run never reaches a state in
\* which the row source waits for a unit of the gate while the compactor
\* waits for a result and no row is in flight.
GateDeadlock ==
    /\ pc \in {"for", "next"}
    /\ ~Avail /\ ~Exhausted
    /\ fid_pos < Len(file) /\ sem = 0 /\ Len(buf) < chunksize
    /\ taskq = <<>> /\ running = {} /\ cache = {}

NoGateDeadlock == ~GateDeadlock

\* C9 (Job-count range): for every policy and every MAX_CPU >= 1 the
\* resolved job count is in 1..MAX_CPU.
NjobsInRange ==
    pc # "start" => njobs \in 1..MAX_CPU

\* C10 (Negative policies): for every policy < -1 the resolved job count is
\* max(MAX_CPU + policy + 1, 1).
NjobsNegativePolicy ==
    (pc # "start" /\ policy < -1) => njobs = Max(MAX_CPU + policy + 1, 1)

\* C11 (Positive and all-cores policies): for every policy > 0 the
\* resolved job count is min(policy, MAX_CPU), and for policy -1 it is
\* MAX_CPU.
NjobsPositivePolicy ==
    pc # "start" =>
        /\ policy > 0 => njobs = Min(policy, MAX_CPU)
        /\ policy = -1 => njobs = MAX_CPU

\* With 8 units: 20 -> 8.
NjobsPositivePolicyWitness ==
    /\ pc # "start"
    /\ MAX_CPU = 8 /\ policy = 20 /\ njobs = 8

\* C12 (Explicit descriptor column is honoured): whatever column c >= 0
\* the caller passes, 0 included, is the column the processing pass uses;
\* the detector's result is used only when the caller passes none.
ExplicitColumnHonoured ==
    SetUp =>
        /\ smiles_arg # None => smiles_col = smiles_arg
        /\ smiles_arg = None => smiles_col = col_found

\* C13 (Per-row failure isolation): parse_line never raises; a row that
\* fails for any reason, a row without field smiles_col included, is
\* recorded in the invalid-row set and does not abort the run.
FailedIdx == {k \in 0..(Len(rows) - 1) : rows[k + 1] # "valid"}

RowFailureIsolated ==
    /\ err # "IndexError"
    /\ pc = "done" => invalid_rows = FailedIdx

\* C14 (Column detection result): find_smiles_col returns the smallest
\* field index whose token the probe accepts, and raises the
\* no-valid-column error exactly when no field is accepted.
Accepted == {j \in 0..(Len(probe) - 1) : probe[j + 1]}

ColumnDetected ==
    /\ col_found # None =>
          (col_found \in Accepted /\ \A j \in Accepted : col_found <= j)
    /\ err = "NoValidColumn" => Accepted = {}
    /\ (pc \in {"assign", "count", "rewind", "create"} \/ SetUp) =>
          (col_found # None /\ Accepted # {})

\* Row ["1", "CCO"]: field 0 rejected, field 1 accepted, 1 returned.
ColumnDetectedWitness ==
    /\ pc = "assign"
    /\ probe = <<FALSE, TRUE>>
    /\ col_found = 1

\* C15 (Column detection does not consume the sample row): when
\* find_smiles_col has returned or raised the no-valid-column error, the
\* read position is the one before the call, and the next row to read is
\* the first data row.
StreamPositionRestored ==
    (pc = "assign" \/ err = "NoValidColumn") =>
        /\ fid_pos = pos
        /\ fid_pos = (IF title_line THEN 1 ELSE 0)
        /\ file[fid_pos + 1].id = 0

StreamPositionRestoredWitness ==
    /\ err = "NoValidColumn"
    /\ title_line
    /\ fid_pos = 1
    /\ Len(probe) >= 2

\* C16 (Ordered delivery): whatever order the workers finish in, the n-th
\* result the compactor pulls is the result of the n-th row submitted.
Pulled == en_count + offset - (IF pc = "next" THEN 1 ELSE 0)

OrderedDelivery ==
    /\ pc = "body" =>
          /\ fp.row = Pulled - 1
          /\ fp.val = (IF rows[fp.row + 1] = "valid" THEN fp.row ELSE None)
    /\ \A k \in DOMAIN curchunk : curchunk[k].row = Pulled + k - 1

\* The compactor waits for a task while a later task has finished.
OrderedDeliveryWitness ==
    /\ pc \in {"for", "next"}
    /\ curchunk = <<>>
    /\ \A q \in cache : q.job # index
    /\ \E r \in cache : r.job > index
    /\ Pulled >= chunksize

\* C17 (Empty input fails before construction): for a file of zero bytes
\* the call raises the empty-input error and creates no pool, no
\* semaphore, no h5 file and no dataset.
EmptyInputFailsFirst ==
    file = <<>> =>
        /\ made = {}
        /\ pc \in {"stat", "raised"}
        /\ pc = "raised" => err = "EmptyInput"

EmptyInputFailsFirstWitness ==
    /\ file = <<>>
    /\ pc = "raised"
    /\ err = "EmptyInput"

\* C18 (Determinism): the final dataset and the invalid-row set depend on
\* the input only, not on the schedule: a run that returns has the valid
\* rows' vectors in file order and the failed rows' indices, and whether a
\* run returns or leaves with StopIteration depends on the last row only.
KthValid(k) ==
    CHOOSE v \in ValidIdx : Cardinality({u \in ValidIdx : u < v}) = k

ExpectedDataset ==
    [k \in 0..(Len(rows) - 1) |->
        IF k < Cardinality(ValidIdx) THEN KthValid(k) ELSE None]

Deterministic ==
    /\ (pc = "done" \/ (SetUp /\ err = "StopIteration")) =>
          /\ fps_dset = ExpectedDataset
          /\ invalid_rows = InvalidIdx
    /\ pc = "done" =>
          (dset_rows = Cardinality(ValidIdx) /\ rows[Len(rows)] = "valid")
    /\ (SetUp /\ err = "StopIteration") => rows[Len(rows)] = "invalid"

\* Two workers, several tasks, valid and invalid rows.
DeterministicWitness ==
    /\ pc = "done"
    /\ njobs = 2
    /\ ndisp >= 3
    /\ invalid_rows # {}
    /\ dset_rows >= 2

\* C19 (Two-pass consistency): the count of the counting pass is the
\* number of data rows, the title line excluded and the sampled first data
\* row included; the processing pass yields exactly those rows, in file
\* order, the sampled row as number 0.
Yielded ==
    {buf[k] : k \in DOMAIN buf}
        \cup UNION {{t.rows[k] : k \in DOMAIN t.rows} : t \in running}
        \cup UNION {{taskq[j].rows[k] : k \in DOMAIN taskq[j].rows} :
                       j \in DOMAIN taskq}

TwoPassConsistent ==
    /\ (pc \in {"rewind", "create"} \/ SetUp) => n_mols = Len(rows)
    /\ pc = "fsc_seek" => file[pos + 1].id = 0
    /\ \A item \in Yielded :
          (item.line.kind # "title" /\ item.line.id = item.row)
    /\ SetUp => nread <= n_mols
    /\ length_set => nread = n_mols

TwoPassConsistentWitness ==
    /\ length_set
    /\ title_line
    /\ n_mols >= 2
    /\ nread = n_mols

\* C20 (Dataset lifecycle): the dataset is created with totalDataRows rows;
\* writes go to indices 0, 1, 2, ... in order, each once and below
\* totalDataRows; the dataset is truncated at most once, after the last
\* write, to the number of rows written, and a finished run has truncated
\* it exactly when an invalid row was found.
RunEnded == SetUp /\ pc \in {"done", "raised"}

DatasetLifecycle ==
    /\ SetUp => DOMAIN fps_dset = 0..(n_mols - 1)
    /\ \A k \in DOMAIN wlog : wlog[k] = k - 1 /\ wlog[k] < n_mols
    /\ ntrunc <= 1
    /\ ntrunc = 1 => (pc = "done" /\ dset_rows = Len(wlog))
    /\ RunEnded => (ntrunc = 1 <=> invalid_rows # {})

\* C21 (No-valid-column error payload): the error find_smiles_col raises
\* carries the delimiter that was supplied and the content of the row.
ErrorCarriesDelimiterAndRow ==
    err = "NoValidColumn" =>
        /\ err_msg.delim = delimiter
        /\ err_msg.row = Join(SampleRow, delimiter)

====
